---- MODULE Spec2Model ----
(***************************************************************************)
(* Connection management of txmongo (src/txmongo/__init__.py): the         *)
(* reconnecting factory _Connection (one per pool slot) and the            *)
(* ConnectionPool that round-robins getprotocol() calls over the slots.    *)
(*                                                                         *)
(* Python indices are kept 0-based (pool slots 0..pool_size-1, the         *)
(* factory's __index starting at -1); TLA+ sequences are 1-based, so       *)
(* allNodes[i] of the source is nodelist[i + 1] here.                      *)
(***************************************************************************)
EXTENDS Integers, Sequences, FiniteSets, TLC

\* ------------------------------------------------------------------ bounds
MaxPool == 2        \* pool_size ranges over 1..MaxPool
MaxNodes == 2       \* the uri's nodelist has MaxNodes entries
MaxProtos == 3      \* protocols built (successful TCP connects) in one run
MaxCalls == 3       \* getprotocol()/notifyReady() calls made in one run
MaxInflight == 2    \* ismaster queries in flight on one protocol
MaxDbs == 2         \* database names looked up through pool[name]

\* -------------------------------------------------------- program constants
DefaultPort == 27017

\* The backoff of ReconnectingClientFactory, in milliseconds: the delay
\* starts at initialDelay and is multiplied by factor (e) on every retry(),
\* up to maxDelay, which _Connection sets to 60 seconds.  The random jitter
\* retry() adds to the delay is left out: delay is the mean of the delay.
initialDelay == 1000
factorNum == 27183
factorDen == 10000
maxDelay == 60000

None == 0           \* Python's None (every falsy handle)
NoName == "none"    \* an absent setName / setname option

Hosts == <<"h1", "h2", "h3", "h4">>

Dbs == <<"db1", "db2", "db3">>

\* ------------------------------------------------------------------- state
VARIABLES
    uri,        \* ConnectionPool.__uri: [nodelist, slaveok, setname]
    pool_size,  \* ConnectionPool.__pool_size
    pool,       \* ConnectionPool.__pool: slot -> the _Connection's fields
    index,      \* ConnectionPool.__index, the round-robin position
    protos,     \* the MongoProtocol objects built so far (id = position)
    calls,      \* the deferreds handed out by getprotocol()/notifyReady()
    server,     \* what each host answers to ismaster (the environment)
    db_cache,   \* ConnectionPool._db_cache: the names, in iteration order
    sweeps      \* the runs of onReconnect that had a database to visit

vars == <<uri, pool_size, pool, index, protos, calls, server, db_cache, sweeps>>

Slots == 0 .. (pool_size - 1)
ProtoIds == 1 .. Len(protos)
CallIds == 1 .. Len(calls)

\* ------------------------------------------------------ handshake replies
\* An ismaster reply: ndocs = len(reply.documents); the other fields are
\* those of the decoded document (0 / NoName / <<>> when absent).
\* A host string "a:1111" is [host |-> "a", port |-> 1111]; a string with
\* no ':' has port = None.
Reply(ndocs, ok, setName, ismaster, maxBson, hosts) ==
    [ndocs |-> ndocs, ok |-> ok, setName |-> setName, ismaster |-> ismaster,
     maxBsonObjectSize |-> maxBson, hosts |-> hosts]

HostsAB == << [host |-> "a", port |-> 1111], [host |-> "b", port |-> None] >>

SecondaryReply == Reply(1, TRUE, "rs0", FALSE, 16, HostsAB)
PrimaryReply == Reply(1, TRUE, "rs0", TRUE, 0, <<>>)

Replies ==
    { Reply(2, TRUE, "rs0", TRUE, 16, HostsAB),
      Reply(1, FALSE, "rs0", TRUE, 16, HostsAB),
      Reply(1, TRUE, "rs1", TRUE, 16, HostsAB),
      SecondaryReply,
      PrimaryReply }

\* ------------------------------------------------------------ construction
\* The class attribute __use_discovered, which a factory reads unless it
\* was set on the factory itself ("set this to True to enable").
use_discovered == FALSE

\* _Connection.__init__ followed by reactor.connectTCP(host, port, factory)
\* of ConnectionPool.__init__: the connector is connecting to nodelist[0].
NewConnection(u) ==
    [ instance |-> None,
      connected |-> FALSE,
      notify_ready |-> <<>>,
      index |-> -1,
      discovered |-> <<>>,
      reconnected |-> FALSE,
      conf_loop |-> TRUE,
      continueTrying |-> TRUE,
      callID |-> FALSE,
      delay |-> initialDelay,
      use_discovered |-> use_discovered,
      connector |-> [state |-> "connecting", host |-> u.nodelist[1][1],
                     port |-> u.nodelist[1][2], proto |-> None] ]

NodeList == [i \in 1 .. MaxNodes |-> <<Hosts[i], DefaultPort>>]

Uris ==
    [ nodelist : {NodeList}, slaveok : BOOLEAN, setname : {NoName, "rs0"} ]

HostNames == {Hosts[i] : i \in 1 .. Len(Hosts)}

\* ConnectionPool.__init__(uri, pool_size) with the given replica set
\* behind it.
Construct(u, n, srv) ==
    /\ uri = u
    /\ pool_size = n
    /\ pool = [f \in 0 .. (n - 1) |-> NewConnection(u)]
    /\ index = 0
    /\ protos = <<>>
    /\ calls = <<>>
    /\ server = srv
    /\ db_cache = <<>>
    /\ sweeps = <<>>

\* pool_size = 1 is the constructor's default; every host may answer
\* anything.
Init ==
    \E u \in Uris : Construct(u, 1, [h \in HostNames |-> Replies])

\* The values the operations below read and write, as one record.
World ==
    [pool |-> pool, protos |-> protos, calls |-> calls, index |-> index,
     sweeps |-> sweeps]

\* A protocol object that neither its factory (instance) nor the connector
\* (its transport's protocol) refers to any more is garbage: of such an
\* object only the identity, the host and the number of times it was
\* released are kept.
Referenced(W, p) ==
    \/ W.pool[W.protos[p].factory].instance = p
    \/ W.pool[W.protos[p].factory].connector.proto = p

Collect(W) ==
    [p \in 1 .. Len(W.protos) |->
        IF Referenced(W, p)
        THEN W.protos[p]
        ELSE [W.protos[p] EXCEPT !.queries = 0, !.max_bson_size = 0,
                                 !.reason = "none"]]

Commit(W) ==
    /\ pool' = W.pool
    /\ protos' = Collect(W)
    /\ calls' = W.calls
    /\ index' = W.index
    /\ sweeps' = W.sweeps
    /\ UNCHANGED <<uri, pool_size, server, db_cache>>

\* ------------------------------------------------- the protocol collaborator
\* MongoProtocol lives in txmongo/protocol.py; the factory uses four of its
\* operations.  A protocol's transport is "open", "closing" (loseConnection()
\* was called, the reactor has not reported the loss yet) or "lost".
NewProto(f, host) ==
    [factory |-> f, host |-> host, transport |-> "open", queries |-> 0,
     max_bson_size |-> 0, connectionLost |-> 0, reason |-> "none"]

\* proto.fail(reason): force-fail the handle, which closes its transport;
\* the protocol keeps the reason it was failed with.
ProtoFail(PR, p, reason) ==
    [PR EXCEPT ![p].transport = IF @ = "open" THEN "closing" ELSE @,
               ![p].reason = reason]

\* transport.loseConnection()
LoseConnection(PR, p) ==
    [PR EXCEPT ![p].transport = IF @ = "open" THEN "closing" ELSE @]

\* proto.connectionLost(reason): the handle is released; its outstanding
\* queries are failed, so their callbacks never run.
ProtoConnectionLost(PR, p) ==
    [PR EXCEPT ![p].queries = 0,
               ![p].connectionLost = IF @ < 2 THEN @ + 1 ELSE @]

\* proto.send_QUERY(query): one more reply is awaited while the transport
\* is open; on a closing or lost transport no reply will ever come.
SendQuery(PR, p) ==
    [PR EXCEPT ![p].queries = IF PR[p].transport = "open" THEN @ + 1 ELSE @]

\* ------------------------------------------------------------ retryNextHost
\* retryNextHost's candidates with the discovered hosts in place of the
\* uri's.
allNodesReplaced(s) ==
    IF s.use_discovered /\ Len(s.discovered) > 0
    THEN s.discovered
    ELSE uri.nodelist

\* allNodes of retryNextHost: the uri's nodes, followed by the discovered
\* ones when the factory's __use_discovered is set.
allNodes(s) ==
    IF s.use_discovered THEN uri.nodelist \o s.discovered ELSE uri.nodelist

\* ReconnectingClientFactory.retry(connector): the delay grows and the
\* reconnect timer (callID) is armed with it.
retry(s) ==
    LET grown == (s.delay * factorNum) \div factorDen
    IN [s EXCEPT !.delay = IF grown < maxDelay THEN grown ELSE maxDelay,
                 !.callID = TRUE]

\* resetDelay() that leaves the delay as it is.
resetDelayKeep(s) ==
    [s EXCEPT !.callID = FALSE, !.continueTrying = TRUE]

\* ReconnectingClientFactory.resetDelay()
resetDelay(s) ==
    [s EXCEPT !.delay = initialDelay, !.callID = FALSE, !.continueTrying = TRUE]

\* retryNextHost that hands the connector to retry() on every transition.
retryNextHostAlwaysDelay(s) ==
    IF ~s.continueTrying
    THEN s
    ELSE LET i1 == s.index + 1
             i2 == IF i1 >= Len(allNodes(s)) THEN 0 ELSE i1
             node == allNodes(s)[i2 + 1]
         IN retry([s EXCEPT !.index = i2,
                            !.connector = [@ EXCEPT !.host = node[1],
                                                    !.port = node[2]],
                            !.reconnected = TRUE])

\* _Connection.retryNextHost on the factory fields s.  With delay the
\* connector is handed to retry(), which arms the reconnect timer (callID);
\* without it connector.connect() starts the attempt at once.
retryNextHost(s) ==
    IF ~s.continueTrying
    THEN s
    ELSE LET i1 == s.index + 1
             delay == i1 >= Len(allNodes(s))
             i2 == IF delay THEN 0 ELSE i1
             node == allNodes(s)[i2 + 1]
             s1 == [s EXCEPT !.index = i2,
                             !.connector = [@ EXCEPT !.host = node[1],
                                                     !.port = node[2]],
                             !.reconnected = TRUE]
         IN IF delay
            THEN retry(s1)
            ELSE [s1 EXCEPT !.connector.state = "connecting"]

\* -------------------------------------------------- notifyReady / deferreds
\* A deferred handed to a caller: who asked (kind, slot), whether it has
\* fired and with what, its position in the order of all firings, and
\* whether it was put on the slot's __notify_ready list.  A "notifyReady"
\* deferred is one a callback asked for while setInstance was running.
NextOrder(C) == Cardinality({i \in 1 .. Len(C) : C[i].status # "pending"}) + 1

Deferred(kind, f) ==
    [kind |-> kind, slot |-> f, status |-> "pending", value |-> <<"none", None>>,
     order |-> 0, queued |-> FALSE]

Succeed(C, d, value) ==
    Append(C, [d EXCEPT !.status = "fired", !.value = value,
                        !.order = NextOrder(C)])

\* notifyReady with the class-level __notify_ready list never replaced per
\* instance: every factory appends to, and takes from, the one shared list.
notifyReadyShared(W, f, kind) ==
    LET s == W.pool[f]
        d == Deferred(kind, f)
    IN IF s.instance # None
       THEN [W EXCEPT !.calls = Succeed(@, d, <<"instance", s.instance>>)]
       ELSE [W EXCEPT !.calls = Append(@, [d EXCEPT !.queued = TRUE]),
                      !.pool = [g \in DOMAIN W.pool |->
                                  [W.pool[g] EXCEPT !.notify_ready =
                                      Append(@, Len(W.calls) + 1)]]]

\* _Connection.notifyReady, asked for by `kind`
notifyReady(W, f, kind) ==
    LET s == W.pool[f]
        d == Deferred(kind, f)
    IN IF s.instance # None
       THEN [W EXCEPT !.calls = Succeed(@, d, <<"instance", s.instance>>)]
       ELSE [W EXCEPT !.calls = Append(@, [d EXCEPT !.queued = TRUE]),
                      !.pool[f].notify_ready = Append(@, Len(W.calls) + 1)]

\* df.callback(self): the deferred's callbacks run now.  getprotocol()'s
\* deferred maps the factory to its instance (lambda c: c.instance); a
\* caller of notifyReady() gets the factory itself.
Callback(W, f, id) ==
    [W EXCEPT !.calls[id] =
        [@ EXCEPT !.status = "fired",
                  !.order = NextOrder(W.calls),
                  !.value = IF W.calls[id].kind = "getprotocol"
                            THEN <<"instance", W.pool[f].instance>>
                            ELSE <<"factory", f>>]]

\* df.errback(reason)
Errback(W, id) ==
    [W EXCEPT !.calls[id] =
        [@ EXCEPT !.status = "failed", !.order = NextOrder(W.calls)]]

\* The loop of setInstance over the deferreds it took off the list; the
\* callback of the re-th one (none when re = 0) calls notifyReady() again.
RECURSIVE FireDeferreds(_, _, _, _, _, _)
FireDeferreds(W, f, deferreds, i, instance, re) ==
    IF i > Len(deferreds)
    THEN W
    ELSE LET W1 == IF instance # None
                   THEN Callback(W, f, deferreds[i])
                   ELSE Errback(W, deferreds[i])
             W2 == IF i = re /\ Len(W1.calls) < MaxCalls
                   THEN notifyReady(W1, f, "notifyReady")
                   ELSE W1
         IN FireDeferreds(W2, f, deferreds, i + 1, instance, re)

\* setInstance that runs the callbacks before it stores the instance and
\* replaces the list.
setInstanceLate(W, f, instance, re) ==
    LET old == W.pool[f].instance
        deferreds == W.pool[f].notify_ready
        W1 == IF old # None /\ old # instance
              THEN [W EXCEPT !.protos = ProtoConnectionLost(@, old)]
              ELSE W
        W2 == FireDeferreds(W1, f, deferreds, 1, instance, re)
    IN [W2 EXCEPT !.pool[f].connected = IF instance # None THEN TRUE ELSE @,
                  !.pool[f].instance = instance,
                  !.pool[f].notify_ready = <<>>]

\* _Connection.setInstance(instance)
setInstance(W, f, instance, re) ==
    LET old == W.pool[f].instance
        deferreds == W.pool[f].notify_ready
        W1 == IF old # None /\ old # instance
              THEN [W EXCEPT !.protos = ProtoConnectionLost(@, old)]
              ELSE W
        W2 == [W1 EXCEPT !.pool[f].connected = IF instance # None THEN TRUE ELSE @,
                         !.pool[f].instance = instance,
                         !.pool[f].notify_ready = <<>>]
    IN FireDeferreds(W2, f, deferreds, 1, instance, re)

\* --------------------------------------------------------------- handshake
\* _Connection.configure(proto): send the ismaster query, if there is a
\* protocol to send it on.
configure(W, p) ==
    IF p # None THEN [W EXCEPT !.protos = SendQuery(@, p)] ELSE W

\* A run of onReconnect: the slot, the size the cache had when iteritems()
\* was called, the names db.reauthenticate() was called for so far, and
\* where the generator stands: "waiting" at its yield for the deferred of
\* the last of them, or ended: "done" (the iteration was exhausted),
\* "failed" (the deferred it waited for failed, the failure was thrown into
\* the generator) or "error" (the iterator raised RuntimeError, dictionary
\* changed size during iteration).
Sweep(f) ==
    [slot |-> f, size |-> Len(db_cache), hooked |-> <<db_cache[1]>>,
     status |-> "waiting"]

\* _Connection.onReconnect up to its first yield; over an empty cache the
\* loop ends at once and nothing is left of the run.
onReconnect(W, f) ==
    LET W1 == [W EXCEPT !.pool[f].reconnected = FALSE]
    IN IF Len(db_cache) = 0
       THEN W1
       ELSE [W1 EXCEPT !.sweeps = Append(@, Sweep(f))]

\* The loop of onReconnect goes on after a yield whose deferred succeeded:
\* the iterator is asked for the next item.
SweepNext(sw) ==
    IF Len(db_cache) # sw.size
    THEN [sw EXCEPT !.status = "error"]
    ELSE IF Len(sw.hooked) = sw.size
    THEN [sw EXCEPT !.status = "done"]
    ELSE [sw EXCEPT !.hooked = Append(@, db_cache[Len(sw.hooked) + 1])]

\* The (host, port) list _configureCallback builds from config['hosts'].
hostaddrs(hosts) ==
    [i \in 1 .. Len(hosts) |->
        IF hosts[i].port = None
        THEN <<hosts[i].host, DefaultPort>>
        ELSE <<hosts[i].host, hosts[i].port>>]

\* proto.fail(reason) as called by _configureCallback
Reject(W, p, reason) ==
    [W EXCEPT !.protos = ProtoFail(@, p, reason)]

\* Accept without the master check.
AcceptAny(W, f, p, reply, re) ==
    LET W1 == IF reply.maxBsonObjectSize # 0
              THEN [W EXCEPT !.protos[p].max_bson_size = reply.maxBsonObjectSize]
              ELSE W
        W2 == IF Len(reply.hosts) > 0
              THEN [W1 EXCEPT !.pool[f].discovered = hostaddrs(reply.hosts)]
              ELSE W1
        W3 == setInstance(W2, f, p, re)
    IN IF W.pool[f].reconnected THEN onReconnect(W3, f) ELSE W3

\* Accept with the master check made whatever slaveok says.
AcceptMasterOnly(W, f, p, reply, re) ==
    LET W1 == IF reply.maxBsonObjectSize # 0
              THEN [W EXCEPT !.protos[p].max_bson_size = reply.maxBsonObjectSize]
              ELSE W
        W2 == IF Len(reply.hosts) > 0
              THEN [W1 EXCEPT !.pool[f].discovered = hostaddrs(reply.hosts)]
              ELSE W1
    IN IF ~reply.ismaster
       THEN Reject(W2, p, "not master")
       ELSE LET W3 == setInstance(W2, f, p, re)
            IN IF W.pool[f].reconnected THEN onReconnect(W3, f) ELSE W3

\* _Connection._configureCallback(reply, proto) from the size and set-name
\* bookkeeping on (the reply passed the first three checks).
Accept(W, f, p, reply, re) ==
    LET W1 == IF reply.maxBsonObjectSize # 0
              THEN [W EXCEPT !.protos[p].max_bson_size = reply.maxBsonObjectSize]
              ELSE W
        W2 == IF Len(reply.hosts) > 0
              THEN [W1 EXCEPT !.pool[f].discovered = hostaddrs(reply.hosts)]
              ELSE W1
    IN IF ~uri.slaveok /\ ~reply.ismaster
       THEN Reject(W2, p, "not master")
       ELSE LET W3 == setInstance(W2, f, p, re)
            IN IF W.pool[f].reconnected THEN onReconnect(W3, f) ELSE W3

\* _configureCallback that records the size and the hosts of the reply
\* before it checks anything.
configureCallbackRecordFirst(W, f, p, reply, re) ==
    LET W1 == IF reply.maxBsonObjectSize # 0
              THEN [W EXCEPT !.protos[p].max_bson_size = reply.maxBsonObjectSize]
              ELSE W
        W2 == IF Len(reply.hosts) > 0
              THEN [W1 EXCEPT !.pool[f].discovered = hostaddrs(reply.hosts)]
              ELSE W1
    IN IF reply.ndocs # 1
       THEN Reject(W2, p, "Invalid document length.")
       ELSE IF ~reply.ok
       THEN Reject(W2, p, "Unknown error")
       ELSE IF uri.setname # NoName /\ uri.setname # reply.setName
       THEN Reject(W2, p, "Mongo instance does not match requested replicaSet.")
       ELSE Accept(W2, f, p, reply, re)

configureCallback(W, f, p, reply, re) ==
    IF reply.ndocs # 1
    THEN Reject(W, p, "Invalid document length.")
    ELSE IF ~reply.ok
    THEN Reject(W, p, "Unknown error")
    ELSE IF uri.setname # NoName /\ uri.setname # reply.setName
    THEN Reject(W, p, "Mongo instance does not match requested replicaSet.")
    ELSE Accept(W, f, p, reply, re)

\* ------------------------------------------------------------------ actions
\* The TCP connect of slot f succeeded: _Connection.buildProtocol, then the
\* new protocol's connectionReady() callbacks.
buildProtocol(f) ==
    /\ pool[f].connector.state = "connecting"
    /\ Len(protos) < MaxProtos
    /\ \E re \in 0 .. Len(pool[f].notify_ready) :
        LET p == Len(protos) + 1
            W1 == [World EXCEPT
                     !.protos = Append(@, NewProto(f, pool[f].connector.host)),
                     !.pool[f] = resetDelay([@ EXCEPT
                                    !.connector.state = "connected",
                                    !.connector.proto = p])]
            W2 == IF uri.slaveok
                  THEN LET Wa == setInstance(W1, f, p, re)
                       IN IF pool[f].reconnected THEN onReconnect(Wa, f) ELSE Wa
                  ELSE configure(W1, p)
        IN Commit(W2)

\* The reply to an ismaster query sent on protocol p arrives.  It may do so
\* as long as the protocol has not been told that its connection is lost:
\* also after proto.fail() or loseConnection() asked to close the transport.
_configureCallback(p) ==
    /\ protos[p].queries > 0
    /\ protos[p].transport # "lost"
    /\ \E reply \in server[protos[p].host],
          re \in 0 .. Len(pool[protos[p].factory].notify_ready) :
        Commit(configureCallback(
                 [World EXCEPT !.protos[p].queries = @ - 1],
                 protos[p].factory, p, reply, re))

\* _Connection.clientConnectionFailed on the factory fields s
ConnectionFailed(s) ==
    LET s1 == [s EXCEPT !.connected = FALSE]
    IN IF s1.continueTrying THEN retryNextHost(s1) ELSE s1

\* The TCP connect of slot f failed.
clientConnectionFailed(f) ==
    /\ pool[f].connector.state = "connecting"
    /\ Commit([World EXCEPT !.pool[f] =
                ConnectionFailed([@ EXCEPT !.connector.state = "disconnected"])])

\* The transport of slot f's connection is gone: the protocol's
\* connectionLost, then _Connection.clientConnectionLost.
ConnectionLost(f) ==
    /\ LET p == pool[f].connector.proto
           s1 == [pool[f] EXCEPT !.connector.state = "disconnected",
                                 !.connector.proto = None,
                                 !.connected = FALSE]
       IN Commit([World EXCEPT
                    !.protos = [ProtoConnectionLost(@, p) EXCEPT ![p].transport = "lost"],
                    !.pool[f] = IF s1.continueTrying THEN retryNextHost(s1) ELSE s1])

\* The reactor reports the loss of a transport closed by loseConnection().
clientConnectionLost(f) ==
    /\ pool[f].connector.state = "connected"
    /\ protos[pool[f].connector.proto].transport = "closing"
    /\ ConnectionLost(f)

\* The network drops slot f's open connection.
connectionDropped(f) ==
    /\ pool[f].connector.state = "connected"
    /\ protos[pool[f].connector.proto].transport = "open"
    /\ ConnectionLost(f)

\* The reconnect timer armed by retry() fires: connector.connect().
reconnector(f) ==
    /\ pool[f].callID
    /\ Commit([World EXCEPT !.pool[f].callID = FALSE,
                            !.pool[f].connector.state = "connecting"])

\* The LoopingCall of __init__ fires: configure(self.instance).
conf_loop(f) ==
    /\ pool[f].conf_loop
    /\ pool[f].instance # None
    /\ protos[pool[f].instance].queries < MaxInflight
    /\ Commit(configure(World, pool[f].instance))

\* The deferred of a db.reauthenticate() that run k of onReconnect waits
\* for fires: with a result, and the loop goes on, or with a failure.
reauthenticated(k) ==
    /\ sweeps[k].status = "waiting"
    /\ \E ok \in BOOLEAN :
        Commit([World EXCEPT !.sweeps[k] =
                  IF ok THEN SweepNext(@) ELSE [@ EXCEPT !.status = "failed"]])

DbNames == {Dbs[i] : i \in 1 .. MaxDbs}

InCache(name) == \E i \in 1 .. Len(db_cache) : db_cache[i] = name

\* ConnectionPool.__getitem__(name), the first lookup of the name
getitem(name) ==
    /\ ~InCache(name)
    /\ db_cache' = Append(db_cache, name)
    /\ UNCHANGED <<uri, pool_size, pool, index, protos, calls, server, sweeps>>

\* ConnectionPool.isconnected()
isconnected == pool[index].connected

\* The slot ConnectionPool.getprotocol() picks: self.__pool[self.__index]
connection(W) == W.index

\* getprotocol() that moves the index on only when the caller has to wait.
getprotocolNoAdvance(W) ==
    LET f == connection(W)
        W1 == [W EXCEPT !.index = (W.index + 1) % pool_size]
    IN IF W.pool[f].instance # None
       THEN [W EXCEPT !.calls =
                Succeed(@, Deferred("getprotocol", f),
                        <<"instance", W.pool[f].instance>>)]
       ELSE notifyReady(W1, f, "getprotocol")

\* ConnectionPool.getprotocol()
getprotocolOp(W) ==
    LET f == connection(W)
        W1 == [W EXCEPT !.index = (W.index + 1) % pool_size]
    IN IF W.pool[f].instance # None
       THEN [W1 EXCEPT !.calls =
                Succeed(@, Deferred("getprotocol", f),
                        <<"instance", W.pool[f].instance>>)]
       ELSE notifyReady(W1, f, "getprotocol")

getprotocol ==
    /\ Len(calls) < MaxCalls
    /\ Commit(getprotocolOp(World))

\* ReconnectingClientFactory.stopTrying plus the override: the reconnect
\* timer is cancelled, a connect in progress is stopped (which reports
\* clientConnectionFailed), the LoopingCall is stopped.
stopTrying(s) ==
    LET s1 == [s EXCEPT !.callID = FALSE, !.continueTrying = FALSE,
                        !.conf_loop = FALSE]
    IN IF s1.connector.state = "connecting"
       THEN ConnectionFailed([s1 EXCEPT !.connector.state = "disconnected"])
       ELSE s1

\* The body of disconnect()'s loop for one factory.
disconnectFactory(W, f) ==
    LET W1 == [W EXCEPT !.pool[f] = stopTrying(@)]
        W2 == IF W1.pool[f].instance # None
              THEN [W1 EXCEPT !.protos = LoseConnection(@, W1.pool[f].instance)]
              ELSE W1
    IN IF W2.pool[f].connector.state = "connected"
       THEN [W2 EXCEPT !.protos = LoseConnection(@, W2.pool[f].connector.proto)]
       ELSE W2

RECURSIVE disconnectFrom(_, _)
disconnectFrom(W, f) ==
    IF f >= pool_size THEN W ELSE disconnectFrom(disconnectFactory(W, f), f + 1)

\* ConnectionPool.disconnect(), called once
disconnect ==
    /\ \A f \in Slots : pool[f].conf_loop
    /\ Commit(disconnectFrom(World, 0))

Next ==
    \/ \E f \in Slots : buildProtocol(f)
    \/ \E p \in ProtoIds : _configureCallback(p)
    \/ \E f \in Slots : clientConnectionFailed(f)
    \/ \E f \in Slots : clientConnectionLost(f)
    \/ \E f \in Slots : connectionDropped(f)
    \/ \E f \in Slots : reconnector(f)
    \/ \E f \in Slots : conf_loop(f)
    \/ getprotocol
    \/ disconnect

Spec == Init /\ [][Next]_vars

\* What the reactor does by itself, sooner or later: deliver a reply, report
\* a closed transport, fire an armed timer.  (Whether a TCP connect succeeds
\* or fails, whether the network drops a connection and whether the
\* application calls in are not up to it.)
Reactor ==
    \/ \E p \in ProtoIds : _configureCallback(p)
    \/ \E f \in Slots : clientConnectionLost(f)
    \/ \E f \in Slots : reconnector(f)

FairSpec == Spec /\ WF_vars(Reactor)

\* A pool of MaxPool slots in front of a healthy primary: every host
\* accepts the connections made to it and answers as the primary; a
\* connection may still be dropped.
InitPool ==
    \E u \in Uris :
        /\ u.setname = "rs0"
        /\ Construct(u, MaxPool, [h \in HostNames |-> {PrimaryReply}])

NextPool ==
    \/ \E f \in Slots : buildProtocol(f)
    \/ \E p \in ProtoIds : _configureCallback(p)
    \/ \E f \in Slots : clientConnectionLost(f)
    \/ \E f \in Slots : connectionDropped(f)
    \/ \E f \in Slots : reconnector(f)
    \/ \E f \in Slots : conf_loop(f)
    \/ getprotocol
    \/ disconnect

PoolSpec == InitPool /\ [][NextPool]_vars

\* The end-to-end scenario: one slot, candidates [h1, h2], setname rs0,
\* slaveok false; h1 always answers as a secondary, h2 as the primary; both
\* accept every connection and keep it at least until its handshake is
\* answered (a connection that is ready may still be dropped).
E2ENodes == << <<"h1", DefaultPort>>, <<"h2", DefaultPort>> >>

\* {ok: 1, ismaster: false, setName: rs0}, with or without the optional fields
E2ESecondary == {SecondaryReply, Reply(1, TRUE, "rs0", FALSE, 0, <<>>)}

\* {ok: 1, ismaster: true, setName: rs0}, with or without the optional fields
E2EPrimary == {PrimaryReply, Reply(1, TRUE, "rs0", TRUE, 16, HostsAB)}

InitE2E ==
    Construct([nodelist |-> E2ENodes, slaveok |-> FALSE, setname |-> "rs0"], 1,
              [h \in HostNames |->
                  IF h = "h1" THEN E2ESecondary ELSE E2EPrimary])

readyConnectionDropped(f) ==
    /\ pool[f].connected
    /\ connectionDropped(f)

NextE2E ==
    \/ \E f \in Slots : buildProtocol(f)
    \/ \E p \in ProtoIds : _configureCallback(p)
    \/ \E f \in Slots : clientConnectionLost(f)
    \/ \E f \in Slots : reconnector(f)
    \/ \E f \in Slots : conf_loop(f)
    \/ \E f \in Slots : readyConnectionDropped(f)
    \/ getprotocol

E2ESpec ==
    /\ InitE2E
    /\ [][NextE2E]_vars
    /\ WF_vars(\E f \in Slots : buildProtocol(f))
    /\ WF_vars(Reactor)

\* The handshakes of one slot whose connects succeed, against hosts that
\* may answer anything.
NextValidate ==
    \/ \E f \in Slots : buildProtocol(f)
    \/ \E p \in ProtoIds : _configureCallback(p)
    \/ \E f \in Slots : clientConnectionLost(f)
    \/ \E f \in Slots : reconnector(f)
    \/ \E f \in Slots : conf_loop(f)
    \/ getprotocol

ValidateSpec == Init /\ [][NextValidate]_vars

\* One slot with __use_discovered set to True, in front of a replica set
\* whose members report their peers; the peers answer like the members.
HostsH2 == << [host |-> "h2", port |-> None] >>

DiscoverReplies ==
    { SecondaryReply, PrimaryReply, Reply(1, TRUE, "rs0", FALSE, 0, HostsH2) }

InitDiscover ==
    LET u == [nodelist |-> NodeList, slaveok |-> FALSE, setname |-> "rs0"]
    IN /\ uri = u
       /\ pool_size = 1
       /\ pool = [f \in {0} |-> [NewConnection(u) EXCEPT !.use_discovered = TRUE]]
       /\ index = 0
       /\ protos = <<>>
       /\ calls = <<>>
       /\ server = [h \in HostNames \cup {"a", "b"} |-> DiscoverReplies]
       /\ db_cache = <<>>
       /\ sweeps = <<>>

\* The connects, handshakes and failovers of that slot.
NextDiscover ==
    \/ \E f \in Slots : buildProtocol(f)
    \/ \E p \in ProtoIds : _configureCallback(p)
    \/ \E f \in Slots : clientConnectionFailed(f)
    \/ \E f \in Slots : clientConnectionLost(f)
    \/ \E f \in Slots : connectionDropped(f)
    \/ \E f \in Slots : reconnector(f)

DiscoverSpec == InitDiscover /\ [][NextDiscover]_vars

\* A pool made with slaveok, in front of members of rs0 that answer the
\* ismaster command successfully, as primary or as secondary.
InitSlave ==
    \E u \in Uris :
        /\ u.slaveok
        /\ Construct(u, 1, [h \in HostNames |-> {SecondaryReply, PrimaryReply}])

SlaveSpec == InitSlave /\ [][Next]_vars

\* An application that looks databases up, in front of a healthy primary
\* whose connections may be dropped.
InitReauth ==
    \E u \in Uris :
        /\ u.setname = "rs0"
        /\ Construct(u, 1, [h \in HostNames |-> {PrimaryReply}])

NextReauth ==
    \/ \E f \in Slots : buildProtocol(f)
    \/ \E p \in ProtoIds : _configureCallback(p)
    \/ \E f \in Slots : connectionDropped(f)
    \/ \E f \in Slots : reconnector(f)
    \/ \E k \in 1 .. Len(sweeps) : reauthenticated(k)
    \/ \E name \in DbNames : getitem(name)
    \/ getprotocol

ReauthSpec == InitReauth /\ [][NextReauth]_vars

\* ================================================================== claims
Pending(i) == i \in CallIds /\ calls[i].status = "pending"
Fired(i) == i \in CallIds /\ calls[i].status = "fired"
Rejected(i) == i \in CallIds /\ calls[i].status = "failed"

\* disconnect() has run: it stopped every factory's LoopingCall.
Disconnected == \A f \in Slots : ~pool[f].conf_loop

\* The queued deferreds of slot f, fired or not.
QueuedOn(f) == {i \in CallIds : calls[i].slot = f /\ calls[i].queued}

\* The deferreds a step hands out.
NewCalls == (Len(calls) + 1) .. Len(calls')

\* C1: a deferred that is pending when disconnect() runs is rejected sooner
\* or later: for every deferred, if it is pending before the teardown, then
\* from the teardown on it eventually fails.
C1_Claim ==
    \A i \in 1 .. MaxCalls :
        [](Pending(i) /\ ~Disconnected
             => [](Disconnected => <>Rejected(i)))

\* C2: setInstance(connection) fires every deferred queued on the slot, once,
\* in the order of the notifyReady() calls, and leaves the list empty; a
\* notifyReady() on a slot that has its instance fires at once and is not
\* queued, also when a callback of that very setInstance makes it.
C2_Fifo ==
    \A i, j \in CallIds :
        (/\ i < j
         /\ calls[i].slot = calls[j].slot
         /\ calls[i].queued /\ calls[j].queued
         /\ calls[j].status = "fired")
        => (calls[i].status = "fired" /\ calls[i].order < calls[j].order)

C2_Queue ==
    \A f \in Slots :
        /\ pool[f].instance # None => pool[f].notify_ready = <<>>
        /\ {pool[f].notify_ready[k] : k \in 1 .. Len(pool[f].notify_ready)}
             = {i \in QueuedOn(f) : calls[i].status = "pending"}
        /\ \A k, l \in 1 .. Len(pool[f].notify_ready) :
             k < l => pool[f].notify_ready[k] < pool[f].notify_ready[l]

C2_Step ==
    /\ \A i \in CallIds : calls[i].status # "pending" => calls'[i] = calls[i]
    /\ \A f \in Slots :
         (pool[f].instance = None /\ pool'[f].instance # None)
         => /\ pool'[f].notify_ready = <<>>
            /\ \A k \in 1 .. Len(pool[f].notify_ready) :
                 calls'[pool[f].notify_ready[k]].status = "fired"
    /\ \A i \in NewCalls :
         pool'[calls'[i].slot].instance # None
         => calls'[i].status = "fired" /\ ~calls'[i].queued

C2_Thm == [](C2_Fifo /\ C2_Queue) /\ [][C2_Step]_vars

\* Two queued deferreds of one slot have fired, and a callback's own
\* notifyReady() has fired without being queued.
C2_Witness ==
    \E i, j, k \in CallIds :
        /\ i < j
        /\ calls[i].slot = calls[j].slot
        /\ calls[i].queued /\ calls[j].queued
        /\ calls[i].status = "fired" /\ calls[j].status = "fired"
        /\ calls[k].kind = "notifyReady" /\ calls[k].status = "fired"
        /\ ~calls[k].queued
        /\ calls[i].order < calls[k].order /\ calls[k].order < calls[j].order

\* C3: a getprotocol() on a slot whose connection failed or was lost, and
\* that has not been made ready since (connected is false), returns a
\* pending deferred.
C3_Claim ==
    [][\A i \in NewCalls :
          (calls'[i].kind = "getprotocol" /\ ~pool[calls'[i].slot].connected)
          => calls'[i].status = "pending"]_vars

\* C4: every getprotocol() picks the slot at the round-robin index and moves
\* the index on by one modulo the pool size; nothing else moves it; so
\* successive calls pick the slots in cyclic order, whatever their state.
NewGets == {i \in NewCalls : calls'[i].kind = "getprotocol"}

C4_Step ==
    /\ Cardinality(NewGets) <= 1
    /\ NewGets = {} => index' = index
    /\ \A i \in NewGets :
         calls'[i].slot = index /\ index' = (index + 1) % pool_size

Gets == {i \in CallIds : calls[i].kind = "getprotocol"}

C4_Cyclic ==
    /\ index \in Slots
    /\ \A i, j \in Gets :
         (i < j /\ ~\E k \in Gets : i < k /\ k < j)
         => calls[j].slot = (calls[i].slot + 1) % pool_size
    /\ \A i \in Gets :
         (~\E k \in Gets : k > i) => index = (calls[i].slot + 1) % pool_size

C4_Thm == []C4_Cyclic /\ [][C4_Step]_vars

\* pool_size successive calls have been made, some on a slot with an
\* instance and some on one without, and the index has wrapped.
C4_Witness ==
    /\ pool_size >= 2
    /\ Cardinality(Gets) > pool_size
    /\ \E i, j \in Gets : calls[i].queued /\ ~calls[j].queued

\* C5: a getprotocol() that picks a slot without an instance waits on that
\* slot's list, whatever the other slots are; a deferred queued on a slot is
\* fired only by that slot getting its instance, and with that instance; no
\* deferred ever carries a protocol of another slot.
C5_Own ==
    /\ \A i \in CallIds :
         (calls[i].status = "fired" /\ calls[i].value[1] = "instance")
         => protos[calls[i].value[2]].factory = calls[i].slot
    /\ \A f \in Slots : \A k \in 1 .. Len(pool[f].notify_ready) :
         calls[pool[f].notify_ready[k]].slot = f

C5_Step ==
    /\ \A i \in NewGets :
         pool[calls'[i].slot].instance = None
         => /\ calls'[i].status = "pending"
            /\ \E k \in 1 .. Len(pool'[calls'[i].slot].notify_ready) :
                 pool'[calls'[i].slot].notify_ready[k] = i
    /\ \A i \in CallIds :
         (calls[i].status = "pending" /\ calls'[i].status # "pending")
         => /\ pool[calls[i].slot].instance = None
            /\ pool'[calls[i].slot].instance # None
            /\ calls'[i].value = <<"instance", pool'[calls[i].slot].instance>>

C6_Claim ==
    \A p \in ProtoIds :
        (/\ ~uri.slaveok
         /\ protos[p].reason = "not master"
         /\ protos[p].transport = "lost")
        => pool[protos[p].factory].instance # p

\* C7: in the end-to-end scenario the slot gets ready on h2, every pending
\* getprotocol() is fired, and whatever is fired carries a protocol connected
\* to h2.
ReadyOn(h) ==
    \E f \in Slots :
        /\ pool[f].connected
        /\ pool[f].instance # None
        /\ protos[pool[f].instance].host = h

C7_OnlyH2 ==
    \A i \in CallIds :
        calls[i].status # "pending"
        => /\ calls[i].status = "fired"
           /\ calls[i].value[1] = "instance"
           /\ protos[calls[i].value[2]].host = "h2"

C7_Thm ==
    /\ <>ReadyOn("h2")
    /\ \A i \in 1 .. MaxCalls : [](Pending(i) => <>Fired(i))
    /\ [](C7_OnlyH2 /\ ~ReadyOn("h1"))

\* A getprotocol() that had to wait has been fired with h2's protocol, after
\* h1 was tried and failed as not master.
C7_Witness ==
    /\ ReadyOn("h2")
    /\ \E i \in CallIds :
         /\ calls[i].queued /\ calls[i].status = "fired"
         /\ protos[calls[i].value[2]].host = "h2"
    /\ \E p \in ProtoIds : protos[p].host = "h1" /\ protos[p].transport = "lost"

\* C8: isconnected() is true exactly when the next getprotocol() would
\* return an already-fired deferred (its slot has an instance).
C8_Claim == isconnected <=> (pool[index].instance # None)

\* C9: every failover (a retryNextHost that moves the cursor) points the
\* connector at the candidate after the one it was pointed at, cyclically.
NextCandidate(host) ==
    LET k == CHOOSE i \in 1 .. Len(uri.nodelist) : uri.nodelist[i][1] = host
    IN uri.nodelist[(k % Len(uri.nodelist)) + 1][1]

C9_Claim ==
    [][\A f \in Slots :
          (Len(uri.nodelist) >= 2 /\ pool'[f].index # pool[f].index)
          => pool'[f].connector.host = NextCandidate(pool[f].connector.host)]_vars

\* C10: the factory's __index always indexes its candidate list.
C10_Claim ==
    \A f \in Slots :
        0 <= pool[f].index /\ pool[f].index < Len(allNodes(pool[f]))

\* C11: every transition of retryNextHost either wraps the cursor to 0 and
\* hands the connector to retry() (the reconnect timer is armed, no connect is
\* started), or moves the cursor on by one and starts the connect at once
\* (no timer); which of the two is decided by the wrap alone.  A factory
\* that is still trying makes such a transition whenever its connection
\* attempt fails or its connection is lost.
Wraps(f) == pool[f].index + 1 >= Len(allNodes(pool[f]))

Delayed(f) ==
    /\ pool'[f].index = 0
    /\ pool'[f].callID /\ ~pool[f].callID
    /\ pool'[f].connector.state = "disconnected"

Immediate(f) ==
    /\ pool'[f].index = pool[f].index + 1
    /\ pool'[f].callID = pool[f].callID
    /\ pool'[f].connector.state = "connecting"

\* the connector of f reports a failed attempt or a lost connection
Fails(f) ==
    \/ pool[f].connector.state = "connected"
         /\ pool'[f].connector.proto # pool[f].connector.proto
    \/ pool[f].connector.state = "connecting"
         /\ pool'[f].connector.state = "disconnected"

Retries(f) ==
    \/ pool'[f].index # pool[f].index
    \/ pool'[f].callID /\ ~pool[f].callID

C11_Step ==
    \A f \in Slots :
        /\ Retries(f) => (Wraps(f) <=> Delayed(f))
        /\ Retries(f) => (~Wraps(f) <=> Immediate(f))
        /\ ~(Delayed(f) /\ Immediate(f))
        /\ (Fails(f) /\ pool[f].continueTrying /\ pool'[f].continueTrying)
             => Retries(f)

C11_Thm == [][C11_Step]_vars

\* A factory has started a connect at once on a transition that did not
\* wrap, and now waits for the timer armed by one that did.
C11_Witness ==
    \E f \in Slots :
        /\ pool[f].callID
        /\ pool[f].index = 0
        /\ pool[f].connector.state = "disconnected"
        /\ pool[f].connector.host = uri.nodelist[1][1]
        /\ pool[f].continueTrying

\* C12 (as stated): the delay goes back to initialDelay only in a step that
\* makes the slot ready (a protocol becomes its instance); in every other
\* step, rejected handshakes included, it stays or grows, and it never
\* exceeds maxDelay.
MadeReady(f) ==
    /\ pool'[f].instance # None
    /\ pool'[f].instance # pool[f].instance
    /\ pool'[f].connected

Connects(f) ==
    /\ pool'[f].connector.proto # None
    /\ pool'[f].connector.proto # pool[f].connector.proto

Grown(d) ==
    IF (d * factorNum) \div factorDen < maxDelay
    THEN (d * factorNum) \div factorDen
    ELSE maxDelay

C12_Range ==
    \A f \in Slots :
        initialDelay <= pool[f].delay /\ pool[f].delay <= maxDelay

C12_Step ==
    \A f \in Slots :
        /\ Connects(f) => pool'[f].delay = initialDelay
        /\ Delayed(f)
             => (pool'[f].delay = Grown(pool[f].delay)
                 /\ pool'[f].delay >= pool[f].delay)
        /\ (~Connects(f) /\ ~Delayed(f)) => pool'[f].delay = pool[f].delay

StaleReply(p) ==
    /\ protos[p].reason # "none"
    /\ protos[p].transport = "closing"
    /\ protos'[p].transport = "closing"
    /\ protos'[p].queries < protos[p].queries
    /\ pool[protos[p].factory].continueTrying

C13_Claim ==
    [][\A p \in ProtoIds :
          StaleReply(p)
          => /\ pool'[protos[p].factory].instance = pool[protos[p].factory].instance
             /\ pool'[protos[p].factory].connected = pool[protos[p].factory].connected
             /\ pool'[protos[p].factory].discovered = pool[protos[p].factory].discovered
             /\ calls' = calls]_vars

\* The names the cache held when run k of onReconnect started.
AtStart(k) == {db_cache[i] : i \in 1 .. sweeps[k].size}

Hooked(k) == {sweeps[k].hooked[i] : i \in 1 .. Len(sweeps[k].hooked)}

\* C14: a run of onReconnect that ended, with or without a failed
\* reauthenticate(), has called reauthenticate() for every database that
\* was cached when it started; and the firing of a reauthenticate()
\* deferred, whatever its result, changes no slot and no deferred.
C14_Claim ==
    /\ [](\A k \in 1 .. Len(sweeps) :
            sweeps[k].status \in {"done", "failed"} => Hooked(k) = AtStart(k))
    /\ [][\A k \in 1 .. Len(sweeps) :
            sweeps'[k] # sweeps[k] => (pool' = pool /\ calls' = calls)]_vars

\* C15: a run of onReconnect during which a name was added to the cache
\* does not end in an error, and once it is done it has called
\* reauthenticate() exactly once for every database cached at its start.
C15_Claim ==
    \A k \in 1 .. Len(sweeps) :
        Len(db_cache) > sweeps[k].size
        => /\ sweeps[k].status # "error"
           /\ sweeps[k].status = "done"
                => /\ Hooked(k) = AtStart(k)
                   /\ Len(sweeps[k].hooked) = sweeps[k].size

\* C16: whatever the reply, _configureCallback stops at the first check that
\* fails, in the order document count, ok, set name, (size and hosts are
\* recorded,) master: a reply that fails one of the first three checks
\* leaves max_bson_size and the discovered list as they were; a reply that
\* fails only the master check has recorded those it carries; a rejected
\* reply changes no instance, no connected flag and no deferred; a reply
\* that passes all checks makes the protocol the instance.
AllReplies ==
    { Reply(n, ok, sn, im, mb, hs) :
        n \in 0 .. 2, ok \in BOOLEAN, sn \in {NoName, "rs0", "rs1"},
        im \in BOOLEAN, mb \in {0, 16}, hs \in {<<>>, HostsAB} }

FirstFailure(reply) ==
    IF reply.ndocs # 1 THEN "Invalid document length."
    ELSE IF ~reply.ok THEN "Unknown error"
    ELSE IF uri.setname # NoName /\ uri.setname # reply.setName
    THEN "Mongo instance does not match requested replicaSet."
    ELSE IF ~uri.slaveok /\ ~reply.ismaster THEN "not master"
    ELSE "none"

C16_Reply(p, reply) ==
    LET f == protos[p].factory
        W == [World EXCEPT !.protos[p].queries = @ - 1]
        R == configureCallback(W, f, p, reply, 0)
        failure == FirstFailure(reply)
    IN /\ failure # "none"
            => /\ R.protos[p].reason = failure
               /\ R.pool[f].instance = W.pool[f].instance
               /\ R.pool[f].connected = W.pool[f].connected
               /\ R.pool[f].notify_ready = W.pool[f].notify_ready
               /\ R.calls = W.calls
       /\ failure \notin {"none", "not master"}
            => /\ R.protos[p].max_bson_size = W.protos[p].max_bson_size
               /\ R.pool[f].discovered = W.pool[f].discovered
       /\ failure \in {"none", "not master"}
            => /\ R.protos[p].max_bson_size =
                    IF reply.maxBsonObjectSize # 0
                    THEN reply.maxBsonObjectSize
                    ELSE W.protos[p].max_bson_size
               /\ R.pool[f].discovered =
                    IF Len(reply.hosts) > 0
                    THEN hostaddrs(reply.hosts)
                    ELSE W.pool[f].discovered
       /\ failure = "none"
            => /\ R.pool[f].instance = p
               /\ R.pool[f].connected
               /\ R.protos[p].reason = W.protos[p].reason

C16_Thm ==
    \A p \in ProtoIds :
        (protos[p].queries > 0 /\ protos[p].transport # "lost")
        => \A reply \in AllReplies : C16_Reply(p, reply)

\* A reply that failed only the master check has been handled: the
\* protocol carries its size, the slot its hosts, and the slot has no
\* instance.
C16_Witness ==
    \E p \in ProtoIds :
        /\ protos[p].reason = "not master"
        /\ protos[p].max_bson_size = 16
        /\ pool[protos[p].factory].discovered = hostaddrs(HostsAB)
        /\ pool[protos[p].factory].instance = None
        /\ uri.setname = "rs0"

\* C17 (as stated): with __use_discovered set, once a reply has left a
\* non-empty discovered list, the candidates of retryNextHost are that list
\* and nothing else: every later retryNextHost points the connector at one
\* of its entries.
InList(host, port, list) ==
    \E i \in 1 .. Len(list) : list[i] = <<host, port>>

C17_Claim ==
    /\ [](\A f \in Slots :
            (pool[f].use_discovered /\ Len(pool[f].discovered) > 0)
            => allNodes(pool[f]) = pool[f].discovered)
    /\ [][\A f \in Slots :
            (pool[f].use_discovered /\ Len(pool[f].discovered) > 0 /\ Retries(f))
            => InList(pool'[f].connector.host, pool'[f].connector.port,
                      pool[f].discovered)]_vars

\* C17 (amended): with __use_discovered set, the discovered list is always
\* the normalized hosts of one reply (replaced wholesale, port 27017 where
\* none was given), and the candidates of retryNextHost are the uri's nodes
\* followed by that list: every retryNextHost points the connector at the
\* entry of that concatenation the cursor is moved to.
HostLists == {HostsAB, HostsH2}

C17_Normalized ==
    /\ hostaddrs(HostsAB) = << <<"a", 1111>>, <<"b", 27017>> >>
    /\ \A f \in Slots :
         \/ pool[f].discovered = <<>>
         \/ \E hosts \in HostLists : pool[f].discovered = hostaddrs(hosts)

C17_Step ==
    \A f \in Slots :
        /\ pool'[f].discovered # pool[f].discovered
             => \E hosts \in HostLists : pool'[f].discovered = hostaddrs(hosts)
        /\ (pool[f].use_discovered /\ Retries(f))
             => /\ pool[f].discovered = pool'[f].discovered
                /\ pool'[f].index < Len(uri.nodelist) + Len(pool[f].discovered)
                /\ <<pool'[f].connector.host, pool'[f].connector.port>>
                     = (uri.nodelist \o pool[f].discovered)[pool'[f].index + 1]
                /\ (pool[f].index + 1 < Len(uri.nodelist) + Len(pool[f].discovered))
                     => pool'[f].index = pool[f].index + 1

C17_Thm == []C17_Normalized /\ [][C17_Step]_vars

\* After a reply with hosts ["a:1111", "b"] the slot has gone through the
\* uri's nodes and now connects to the discovered ("b", 27017).
C17_Witness ==
    \E f \in Slots :
        /\ pool[f].use_discovered
        /\ pool[f].discovered = << <<"a", 1111>>, <<"b", 27017>> >>
        /\ pool[f].index = Len(uri.nodelist) + 1
        /\ pool[f].connector.host = "b"
        /\ pool[f].connector.port = 27017
        /\ pool[f].connector.state = "connecting"

\* C18: with slaveok, a successful TCP connect makes the new protocol the
\* slot's instance at once, without an ismaster query having been sent on
\* it; and the handling of a reply with ok true and a matching set name,
\* master or not, fails no protocol, closes no transport, leaves the
\* connector where it is and the slot connected.
ReplyHandled(p) ==
    /\ protos'[p].queries < protos[p].queries
    /\ protos'[p].transport = protos[p].transport
    /\ protos[p].transport # "lost"

C18_NoFail == \A p \in ProtoIds : protos[p].reason = "none"

C18_Step ==
    /\ \A f \in Slots :
         Connects(f)
         => /\ pool'[f].instance = pool'[f].connector.proto
            /\ pool'[f].connected
            /\ pool'[f].notify_ready = <<>>
            /\ protos'[pool'[f].connector.proto].queries = 0
    /\ \A p \in ProtoIds :
         ReplyHandled(p)
         => /\ pool'[protos[p].factory].instance = p
            /\ pool[protos[p].factory].instance = p
            /\ pool'[protos[p].factory].connected
            /\ pool'[protos[p].factory].connector = pool[protos[p].factory].connector
            /\ pool'[protos[p].factory].index = pool[protos[p].factory].index
            /\ pool'[protos[p].factory].callID = pool[protos[p].factory].callID

C18_Thm == []C18_NoFail /\ [][C18_Step]_vars

\* A slot made ready by its TCP connect has handled a periodic reply that
\* said ismaster false (the one carrying size 16) and is still ready on the
\* same open connection.
C18_Witness ==
    \E f \in Slots :
        /\ uri.slaveok
        /\ pool[f].instance # None
        /\ pool[f].instance = pool[f].connector.proto
        /\ pool[f].connected
        /\ protos[pool[f].instance].transport = "open"
        /\ protos[pool[f].instance].max_bson_size = 16
        /\ protos[pool[f].instance].queries = 0

\* C19: once disconnect() has stopped a slot (its LoopingCall is stopped),
\* the transport of its connection is no longer open, and no step starts a
\* connection attempt, arms the reconnect timer, sends an ismaster query,
\* changes its instance, sets its connected flag or fires a deferred of
\* the slot.
Stopped(f) == ~pool[f].conf_loop

C19_Released ==
    \A f \in Slots :
        (Stopped(f) /\ pool[f].connector.proto # None)
        => protos[pool[f].connector.proto].transport # "open"

C19_Step ==
    \A f \in Slots :
        Stopped(f)
        => /\ pool'[f].connector.state # "connecting"
           /\ ~pool'[f].callID
           /\ ~pool'[f].conf_loop
           /\ \A p \in ProtoIds :
                protos[p].factory = f => protos'[p].queries <= protos[p].queries
           /\ pool'[f].instance = pool[f].instance
           /\ pool'[f].connected => pool[f].connected
           /\ \A i \in CallIds :
                (calls[i].slot = f /\ calls[i].status = "pending")
                => calls'[i].status # "fired"

C19_Claim == []C19_Released /\ [][C19_Step]_vars

\* C20: a slot never has two protocols whose connection is not lost, and no
\* protocol is released (its connectionLost called) more than once: not by
\* setInstance after the loss of its connection was reported.
Live(f) == {p \in ProtoIds : protos[p].factory = f /\ protos[p].transport # "lost"}

C20_Claim ==
    /\ \A f \in Slots : Cardinality(Live(f)) <= 1
    /\ \A p \in ProtoIds : protos[p].connectionLost <= 1

====
